---- MODULE Spec2Model ----
(***************************************************************************)
(* Link resolution, caching and expiry of the shortlink service.           *)
(*                                                                         *)
(* The store is the "links" table (app/models.py), the cache is the Redis  *)
(* client of app/redis_client.py, the request handlers are those of        *)
(* app/main.py over the queries of app/crud.py.  Every request runs in its *)
(* own SQLAlchemy session; a step of a request is one store statement (a   *)
(* query, or a commit) or the Redis calls that follow each other without a *)
(* store access in between.  Requests interleave between steps.            *)
(***************************************************************************)
EXTENDS Integers, FiniteSets, Sequences, TLC

(***************************************************************************)
(* Bounds of the model.                                                    *)
(***************************************************************************)
\* the largest primary key the store hands out
MaxId == 2
\* the largest value of a link's click counter
MaxClicks == 3

\* Python's None in an integer column or argument
None == -1
\* the short codes in use: aliases a caller may ask for, and the values
\* generate_short_code may draw
Codes == {"abc", "xyz"}
NoCode == "NoCode"
Urls == {"http://x", "http://y"}
NoUrl == "NoUrl"
\* crud.get_project(...).user_id: the projects of the model belong to user 1
ProjectOwner(pid) == 1
\* the instants at which the clock is observed, in seconds
Times == {0, 600, 3600, 4800}
\* the concurrent request handlers
Procs == {"p1", "p2"}

\* ex=3600 of the link cache entry, ex=60 of the stats entry, sleep(600)
LINK_TTL == 3600
STATS_TTL == 60
SWEEP_INTERVAL == 600

VARIABLES
    links,       \* the rows of table "links"
    nextId,      \* the next primary key
    now,         \* the UTC clock
    redisUp,     \* whether the Redis backend answers
    linkCache,   \* Redis keys link:{short_code}
    statsCache,  \* Redis keys stats:{short_code}
    wakeAt,      \* when the sweeper thread's sleep ends
    procs,       \* the request handlers: position, arguments, locals, response
    sweeper,     \* what the sweeper thread's last iteration returned or raised
    served,      \* history: per code, the resolutions answered with a redirect
    fresh,       \* history: per code, the URL of a completed update not yet resolved
    raced        \* history: per code, whether a reader has overlapped a writer

vars == <<links, nextId, now, redisUp, linkCache, statsCache, wakeAt, procs, sweeper,
          served, fresh, raced>>

(***************************************************************************)
(* The store.                                                              *)
(***************************************************************************)
\* a row of models.Link
Link(id, url, code, created, expires, user, proj) ==
    [id |-> id, original_url |-> url, short_code |-> code, created_at |-> created,
     last_used_at |-> None, expires_at |-> expires, clicks |-> 0,
     user_id |-> user, project_id |-> proj]

\* what .first() returns when no row matches
NoRow == [id |-> None, original_url |-> NoUrl, short_code |-> NoCode, created_at |-> None,
          last_used_at |-> None, expires_at |-> None, clicks |-> 0,
          user_id |-> None, project_id |-> None]

\* crud.get_link_by_short_code: the rows .first() may return
get_link_by_short_code(code) ==
    IF \E r \in links : r.short_code = code
    THEN {r \in links : r.short_code = code}
    ELSE {NoRow}

\* fault: a lookup by URL that finds nothing
get_link_by_original_url_none(url) == {NoRow}

\* crud.get_link_by_original_url: no ORDER BY, so any matching row
get_link_by_original_url(url) ==
    IF \E r \in links : r.original_url = url
    THEN {r \in links : r.original_url = url}
    ELSE {NoRow}

\* the row with a primary key, as a refresh or an UPDATE ... WHERE id finds it
RowById(id) ==
    IF \E r \in links : r.id = id THEN CHOOSE r \in links : r.id = id ELSE NoRow

\* faults of the expiry check: the comparison turned round, the check left out
is_link_expired_reversed(link, t) ==
    IF link.expires_at # None THEN link.expires_at > t ELSE FALSE
is_link_expired_never(link, t) == FALSE

\* crud.is_link_expired
is_link_expired(link, t) ==
    IF link.expires_at # None THEN link.expires_at < t ELSE FALSE

(***************************************************************************)
(* The cache.                                                              *)
(***************************************************************************)
NoEntry == [val |-> NoUrl, exp |-> 0]
NoStats == [original_url |-> NoUrl, created_at |-> None, clicks |-> 0,
            last_used_at |-> None, project_id |-> None]
NoStatsEntry == [val |-> NoStats, exp |-> 0]

\* fault: a cache that never answers
CacheGetAlwaysMiss(cache, key, none) == none

\* redis_client.get: an entry answers until its time-to-live has run out
CacheGet(cache, key, none) ==
    IF cache[key].exp > now THEN cache[key].val ELSE none
\* fault: an entry kept for twice its time-to-live
CacheSetTwiceAsLong(cache, key, value, ttl) ==
    [cache EXCEPT ![key] = [val |-> value, exp |-> now + 2 * ttl]]

\* redis_client.set(key, value, ex=ttl)
CacheSet(cache, key, value, ttl) ==
    [cache EXCEPT ![key] = [val |-> value, exp |-> now + ttl]]
\* redis_client.delete(key)
CacheDelete(cache, key, none) ==
    [cache EXCEPT ![key] = [val |-> none, exp |-> 0]]
\* the entries Redis still holds at time t
Unexpired(cache, t, none) ==
    [k \in DOMAIN cache |-> IF cache[k].exp > t THEN cache[k] ELSE [val |-> none, exp |-> 0]]

(***************************************************************************)
(* The request handlers.                                                   *)
(***************************************************************************)
\* history: the URL a completed update left, and whether the update completed
\* with no other request for the code in flight
NoFresh == [url |-> NoUrl, alone |-> FALSE]

Idle == [pc |-> "idle", op |-> "none", code |-> NoCode, url |-> NoUrl, exp |-> None,
         proj |-> None, user |-> None, link |-> NoRow, dbl |-> NoRow,
         cached |-> NoUrl, hit |-> FALSE, inc |-> 0, alone |-> FALSE, at0 |-> "none",
         late |-> FALSE, ts |-> None,
         out |-> "none", why |-> "none", res |-> NoUrl, expect |-> NoFresh]

\* the handler's response: the status, the exception behind a 500, the URL or
\* short code of the body
Respond(p, out, why, res) ==
    [Idle EXCEPT !.pc = "done", !.op = procs[p].op, !.code = procs[p].code,
                 !.hit = procs[p].hit, !.inc = procs[p].inc,
                 !.expect = procs[p].expect, !.at0 = procs[p].at0,
                 !.late = procs[p].late,
                 !.out = out, !.why = why, !.res = res]

Free(p) == procs[p].pc \in {"idle", "done"}
InFlight(op, code) ==
    {q \in Procs : ~Free(q) /\ procs[q].op = op /\ procs[q].code = code}

\* a statement changed the URL or the existence of the row of a code: the
\* history of completed updates no longer describes the store
Touched(codes, f) == [c \in Codes |-> IF c \in codes THEN NoFresh ELSE f[c]]
Forget(codes, ps) ==
    [q \in Procs |-> IF ps[q].code \in codes /\ ps[q].pc # "done"
                     THEN [ps[q] EXCEPT !.expect = NoFresh, !.alone = FALSE] ELSE ps[q]]
\* history: a request for the code starts while an update of it is in flight
Joined(code, ps) ==
    [q \in Procs |-> IF ps[q].code = code /\ ps[q].pc # "done"
                     THEN [ps[q] EXCEPT !.alone = FALSE] ELSE ps[q]]

\* history: a request op for code c starts next to the requests in flight.
\* link: a resolution has been in flight together with an update or a
\* deletion of the code; stats: a statistics request has been in flight
\* together with a resolution, an update or a deletion of the code
Overlaps(op, c) ==
    LET others == {procs[q].op : q \in {q \in Procs : ~Free(q) /\ procs[q].code = c}}
        pairs == {<<op, o>> : o \in others} \cup {<<o, op>> : o \in others}
    IN [raced EXCEPT ![c] =
          [link |-> \/ @.link
                    \/ \E w \in {"update", "delete"} : <<"resolve", w>> \in pairs,
           stats |-> \/ @.stats
                     \/ \E w \in {"resolve", "update", "delete"} : <<"stats", w>> \in pairs]]

(***************************************************************************)
(* GET /{short_code}: main.redirect_to_original_url                        *)
(***************************************************************************)
\* history: the call arrives more than one time-to-live of the link cache
\* after the sweeper removed the link of the code
Late(c) ==
    /\ sweeper.removed[c].at # None
    /\ now > sweeper.removed[c].at + LINK_TTL

\* history: the record of a code as the store holds it when a call arrives
AtCall(c) ==
    IF \A r \in links : r.short_code # c THEN "absent"
    ELSE IF \E r \in links : r.short_code = c /\ r.expires_at # None /\ r.expires_at < now
         THEN "expired" ELSE "live"

StartResolve(p, c) ==
    /\ Free(p)
    /\ served[c] + Cardinality(InFlight("resolve", c)) < MaxClicks
    /\ \A r \in links : r.short_code = c =>
            r.clicks + Cardinality(InFlight("resolve", c)) < MaxClicks
    /\ procs' = [Joined(c, procs) EXCEPT ![p] =
                    [Idle EXCEPT !.pc = "r_get", !.op = "resolve", !.code = c,
                                 !.expect = fresh[c], !.at0 = AtCall(c),
                                 !.late = Late(c)]]
    /\ fresh' = [fresh EXCEPT ![c] = NoFresh]
    /\ UNCHANGED <<links, nextId, now, redisUp, linkCache, statsCache, wakeAt, served, sweeper>>
    /\ raced' = Overlaps("resolve", c)

\* line 127: redis_client.get(f"link:{short_code}"), not guarded by a try
ResolveGet(p) ==
    /\ procs[p].pc = "r_get"
    /\ LET c == procs[p].code
           cu == CacheGet(linkCache, c, NoUrl)
       IN procs' = [procs EXCEPT ![p] =
              IF ~redisUp THEN Respond(p, "Error", "ConnectionError", NoUrl)
              ELSE IF cu # NoUrl
                   THEN [procs[p] EXCEPT !.pc = "r_inc_read", !.cached = cu, !.hit = TRUE]
                   ELSE [procs[p] EXCEPT !.pc = "r_load"]]
    /\ UNCHANGED <<links, nextId, now, redisUp, linkCache, statsCache, wakeAt, served, fresh, sweeper, raced>>

\* fault: the handler without its 404 branch
LookupStatusNo404(r, t) ==
    IF is_link_expired(r, t) THEN "Gone" ELSE "Live"

\* lines 138-149: 404 for no row, 410 for an expired one
LookupStatus(r, t) ==
    IF r = NoRow THEN "NotFound"
    ELSE IF is_link_expired(r, t) THEN "Gone"
    ELSE "Live"

\* lines 137-149: the store lookup and the expiry check of the miss path
ResolveLoad(p) ==
    /\ procs[p].pc = "r_load"
    /\ \E r \in get_link_by_short_code(procs[p].code) :
         procs' = [procs EXCEPT ![p] =
              IF LookupStatus(r, now) # "Live"
              THEN Respond(p, LookupStatus(r, now), "none", NoUrl)
              ELSE [procs[p] EXCEPT !.pc = "r_inc_read", !.link = r]]
    /\ UNCHANGED <<links, nextId, now, redisUp, linkCache, statsCache, wakeAt, served, fresh, sweeper, raced>>

\* crud.increment_link_clicks, line 87: the query.  A row the session has
\* loaded already (line 137) keeps the attribute values of its first load:
\* the identity map does not overwrite them.  The sessions of two requests
\* are two transactions; nothing in the code locks the row (no
\* with_for_update, no clicks = clicks + 1 in SQL), so each reads what is
\* committed and writes the value it computed.  Line 90 follows the query:
\* the timestamp is read here, before the commit
IncrementRead(p) ==
    /\ procs[p].pc = "r_inc_read"
    /\ \E r \in get_link_by_short_code(procs[p].code) :
         procs' = [procs EXCEPT ![p] =
              IF r = NoRow THEN [procs[p] EXCEPT !.pc = "r_fin"]
              ELSE [procs[p] EXCEPT !.pc = "r_inc_commit", !.ts = now,
                        !.dbl = IF r.id = procs[p].link.id THEN procs[p].link ELSE r]]
    /\ UNCHANGED <<links, nextId, now, redisUp, linkCache, statsCache, wakeAt, served, fresh, sweeper, raced>>

\* the counter the UPDATE writes: the value the session loaded, plus one
ClicksWritten(loaded, stored) == loaded.clicks + 1

\* crud.increment_link_clicks, lines 91-95: clicks += 1 on the loaded value,
\* last_used_at = the timestamp of line 90, the commit (UPDATE links SET
\* clicks=?, last_used_at=? WHERE id=?, which raises StaleDataError when the
\* row is gone) and the refresh
IncrementCommit(p) ==
    /\ procs[p].pc = "r_inc_commit"
    /\ LET cur == RowById(procs[p].dbl.id)
           new == [cur EXCEPT !.clicks = ClicksWritten(procs[p].dbl, cur),
                              !.last_used_at = procs[p].ts]
       IN IF cur = NoRow
          THEN /\ procs' = [procs EXCEPT ![p] = Respond(p, "Error", "StaleDataError", NoUrl)]
               /\ links' = links
          ELSE /\ links' = (links \ {cur}) \cup {new}
               /\ procs' = [procs EXCEPT ![p] =
                      [procs[p] EXCEPT !.pc = "r_fin", !.dbl = new, !.inc = @ + 1,
                                       !.ts = None]]
    /\ UNCHANGED <<nextId, now, redisUp, linkCache, statsCache, wakeAt, served, fresh, sweeper, raced>>

\* link.original_url at lines 157 and 159.  The commit of the increment
\* expired the session's objects and the refresh reloaded db_link; without a
\* commit the object of line 137 keeps what it loaded; an object other than
\* db_link is reloaded by primary key, and ObjectDeletedError if the row is gone
UrlOfLink(p) ==
    IF procs[p].dbl = NoRow THEN procs[p].link.original_url
    ELSE IF procs[p].dbl.id = procs[p].link.id THEN procs[p].dbl.original_url
    ELSE RowById(procs[p].link.id).original_url

\* lines 133-134 (served from the cache) and lines 154-159 (served from the
\* store): stats invalidation, the link cache entry, the redirect
ResolveFinish(p) ==
    /\ procs[p].pc = "r_fin"
    /\ LET c == procs[p].code
           url == IF procs[p].hit THEN procs[p].cached ELSE UrlOfLink(p)
       IN IF ~redisUp
          THEN /\ procs' = [procs EXCEPT ![p] = Respond(p, "Error", "ConnectionError", NoUrl)]
               /\ UNCHANGED <<linkCache, statsCache, served>>
          ELSE IF url = NoUrl
          THEN /\ procs' = [procs EXCEPT ![p] = Respond(p, "Error", "ObjectDeletedError", NoUrl)]
               /\ statsCache' = CacheDelete(statsCache, c, NoStats)
               /\ UNCHANGED <<linkCache, served>>
          ELSE /\ procs' = [procs EXCEPT ![p] = Respond(p, "Redirect", "none", url)]
               /\ statsCache' = CacheDelete(statsCache, c, NoStats)
               /\ linkCache' = IF procs[p].hit THEN linkCache
                                ELSE CacheSet(linkCache, c, url, LINK_TTL)
               /\ served' = [served EXCEPT ![c] = @ + 1]
    /\ UNCHANGED <<links, nextId, now, redisUp, wakeAt, fresh, sweeper, raced>>

Resolve(p) ==
    \/ ResolveGet(p)
    \/ ResolveLoad(p)
    \/ IncrementRead(p)
    \/ IncrementCommit(p)
    \/ ResolveFinish(p)

(***************************************************************************)
(* POST /links/shorten: main.create_short_link over crud.create_link.      *)
(* The handler's try block turns every exception, its own HTTPExceptions   *)
(* included, into a 500 response.                                          *)
(***************************************************************************)
StartCreate(p, url, alias, exp, proj, user) ==
    /\ Free(p)
    /\ nextId + Cardinality({q \in Procs : ~Free(q) /\ procs[q].op = "create"}) <= MaxId
    /\ procs' = [(IF alias = NoCode THEN procs ELSE Joined(alias, procs)) EXCEPT ![p] =
                    [Idle EXCEPT !.pc = "c_check", !.op = "create", !.code = alias,
                                 !.url = url, !.exp = exp, !.proj = proj, !.user = user]]
    /\ UNCHANGED <<links, nextId, now, redisUp, linkCache, statsCache, wakeAt, served, fresh, sweeper, raced>>

\* the custom aliases a caller may submit: too short, of the least and of
\* the greatest length, too long, with a character that is not alphanumeric,
\* and empty
Aliases == {"", "ab", "abc", "abc123", "abc!23",
            "aaaaaaaaaaaaaaaaaaaa", "aaaaaaaaaaaaaaaaaaaaa"}

\* the characters of a string
Chars(v) ==
    CASE v = "" -> << >>
      [] v = "ab" -> <<"a", "b">>
      [] v = "abc" -> <<"a", "b", "c">>
      [] v = "xyz" -> <<"x", "y", "z">>
      [] v = "abc123" -> <<"a", "b", "c", "1", "2", "3">>
      [] v = "abc!23" -> <<"a", "b", "c", "!", "2", "3">>
      [] v = "aaaaaaaaaaaaaaaaaaaa" -> [i \in 1..20 |-> "a"]
      [] v = "aaaaaaaaaaaaaaaaaaaaa" -> [i \in 1..21 |-> "a"]

\* the letters and digits among these characters
Alphanumeric == {"a", "b", "c", "x", "y", "z", "1", "2", "3"}

\* str.isalnum: every character is alphanumeric and there is at least one
isalnum(v) == Len(Chars(v)) > 0 /\ \A i \in 1..Len(Chars(v)) : Chars(v)[i] \in Alphanumeric

\* the bounds of schemas.LinkCreate.validate_custom_alias
ALIAS_MIN == 3
ALIAS_MAX == 20

\* fault: a validator that does not look at the characters
validate_custom_alias_any_character(v) ==
    IF v = NoCode THEN "ok"
    ELSE IF Len(Chars(v)) < ALIAS_MIN THEN "ValueError"
    ELSE IF Len(Chars(v)) > ALIAS_MAX THEN "ValueError"
    ELSE "ok"

\* schemas.LinkCreate.validate_custom_alias, lines 50-59; NoCode is None
validate_custom_alias(v) ==
    IF v = NoCode THEN "ok"
    ELSE IF Len(Chars(v)) < ALIAS_MIN THEN "ValueError"
    ELSE IF Len(Chars(v)) > ALIAS_MAX THEN "ValueError"
    ELSE IF ~isalnum(v) THEN "ValueError"
    ELSE "ok"

\* POST /links/shorten: the request body is validated as a schemas.LinkCreate
\* before the handler is called; a ValueError of the validator ends the
\* request with a validation error
SubmitCreate(p, url, alias) ==
    IF validate_custom_alias(alias) = "ok"
    THEN StartCreate(p, url, alias, None, None, None)
    ELSE /\ Free(p)
         /\ procs' = [procs EXCEPT ![p] =
                [Idle EXCEPT !.pc = "done", !.op = "create", !.code = alias,
                             !.out = "ValidationError", !.why = "ValueError"]]
         /\ UNCHANGED <<links, nextId, now, redisUp, linkCache, statsCache, wakeAt,
                        served, fresh, sweeper, raced>>

\* lines 66-100: the alias lookup, else the lookup by URL; the project check
CreateCheck(p) ==
    /\ procs[p].pc = "c_check"
    /\ LET a == procs[p] IN
       \E byCode \in get_link_by_short_code(a.code), byUrl \in get_link_by_original_url(a.url) :
         procs' = [procs EXCEPT ![p] =
              IF a.code # NoCode /\ byCode # NoRow
              THEN Respond(p, "Error", "HTTPException400", NoUrl)
              ELSE IF a.code = NoCode /\ byUrl # NoRow
              THEN [Respond(p, "OK", "none", byUrl.original_url)
                        EXCEPT !.code = byUrl.short_code, !.link = byUrl, !.hit = TRUE]
              ELSE IF a.proj # None /\ a.user = None
              THEN Respond(p, "Error", "HTTPException401", NoUrl)
              ELSE IF a.proj # None /\ ProjectOwner(a.proj) # a.user
              THEN Respond(p, "Error", "HTTPException404", NoUrl)
              ELSE [a EXCEPT !.pc = IF a.code = NoCode THEN "c_gen" ELSE "c_insert"]]
    /\ UNCHANGED <<links, nextId, now, redisUp, linkCache, statsCache, wakeAt, served, fresh, sweeper, raced>>

\* crud.generate_short_code: one draw
generate_short_code == Codes

\* crud.create_link, lines 38-41: one turn of the loop, a draw and its lookup
CreateGenerate(p) ==
    /\ procs[p].pc = "c_gen"
    /\ \E c \in generate_short_code :
         /\ get_link_by_short_code(c) = {NoRow}
         /\ procs' = [procs EXCEPT ![p] = [procs[p] EXCEPT !.pc = "c_insert", !.code = c]]
    /\ UNCHANGED <<links, nextId, now, redisUp, linkCache, statsCache, wakeAt, served, fresh, sweeper, raced>>

\* fault: the column without its unique constraint
NoUniqueConstraint(code) == TRUE

\* unique=True on Link.short_code: the INSERT the store accepts
UniqueShortCode(code) == \A r \in links : r.short_code # code

\* crud.create_link, lines 46-55: the INSERT and its commit
CreateInsert(p) ==
    /\ procs[p].pc = "c_insert"
    /\ LET a == procs[p]
           row == Link(nextId, a.url, a.code, now, a.exp, a.user, a.proj)
       IN IF UniqueShortCode(a.code)
          THEN /\ links' = links \cup {row}
               /\ nextId' = nextId + 1
               /\ procs' = [Forget({a.code}, procs) EXCEPT ![p] =
                      [Respond(p, "OK", "none", a.url) EXCEPT !.link = row]]
               /\ fresh' = Touched({a.code}, fresh)
          ELSE /\ procs' = [procs EXCEPT ![p] = Respond(p, "Error", "IntegrityError", NoUrl)]
               /\ UNCHANGED <<links, nextId, fresh>>
    /\ UNCHANGED <<now, redisUp, linkCache, statsCache, wakeAt, served, sweeper, raced>>

Create(p) ==
    \/ CreateCheck(p)
    \/ CreateGenerate(p)
    \/ CreateInsert(p)

(***************************************************************************)
(* PUT /links/{short_code}: main.update_link over crud.update_link         *)
(***************************************************************************)
StartUpdate(p, c, url, exp, proj, user) ==
    /\ Free(p)
    /\ procs' = [Joined(c, procs) EXCEPT ![p] =
                    [Idle EXCEPT !.pc = "u_load", !.op = "update", !.code = c,
                                 !.url = url, !.exp = exp, !.proj = proj, !.user = user,
                                 !.alone = \A q \in Procs \ {p} :
                                              Free(q) \/ procs[q].code # c]]
    /\ UNCHANGED <<links, nextId, now, redisUp, linkCache, statsCache, wakeAt, served, fresh, sweeper>>
    /\ raced' = Overlaps("update", c)

\* lines 200-221: the lookup, the ownership check, the project check
UpdateLoad(p) ==
    /\ procs[p].pc = "u_load"
    /\ LET a == procs[p] IN
       \E r \in get_link_by_short_code(a.code) :
         procs' = [procs EXCEPT ![p] =
              IF r = NoRow THEN Respond(p, "NotFound", "none", NoUrl)
              ELSE IF r.user_id # None /\ r.user_id # a.user
              THEN Respond(p, "Forbidden", "none", NoUrl)
              ELSE IF a.proj # None /\ ProjectOwner(a.proj) # a.user
              THEN Respond(p, "NotFound", "project", NoUrl)
              ELSE [a EXCEPT !.pc = "u_write", !.link = r]]
    /\ UNCHANGED <<links, nextId, now, redisUp, linkCache, statsCache, wakeAt, served, fresh, sweeper, raced>>

\* fault: an UPDATE that writes every column of the loaded object back
UpdatedRowWholeObject(loaded, cur, url, exp, proj) ==
    [loaded EXCEPT !.original_url = url,
                   !.expires_at = IF exp # None THEN exp ELSE @,
                   !.project_id = IF proj # None THEN proj ELSE @]

\* crud.update_link, lines 63-70: the attributes assigned, and the row the
\* UPDATE leaves.  The flush writes the columns whose assigned value differs
\* from the value the session loaded
UpdatedRow(loaded, cur, url, exp, proj) ==
    [cur EXCEPT !.original_url = IF url # loaded.original_url THEN url ELSE @,
                !.expires_at = IF exp # None /\ exp # loaded.expires_at THEN exp ELSE @,
                !.project_id = IF proj # None /\ proj # loaded.project_id THEN proj ELSE @]

\* line 223, crud.update_link lines 61-72: the query (a row this session
\* loaded at line 200 keeps its loaded attributes), the commit, the refresh
UpdateWrite(p) ==
    /\ procs[p].pc = "u_write"
    /\ LET a == procs[p] IN
       \E r \in get_link_by_short_code(a.code) :
         IF r = NoRow
         THEN /\ procs' = [procs EXCEPT ![p] = [a EXCEPT !.pc = "u_inv", !.dbl = NoRow]]
              /\ UNCHANGED <<links, fresh>>
         ELSE LET loaded == IF r.id = a.link.id THEN a.link ELSE r
                  new == UpdatedRow(loaded, r, a.url, a.exp, a.proj)
              IN /\ links' = (links \ {r}) \cup {new}
                 /\ procs' = [Forget({a.code}, procs) EXCEPT ![p] =
                        [a EXCEPT !.pc = "u_inv", !.dbl = new,
                                  !.expect = [url |-> a.url, alone |-> a.alone]]]
                 /\ fresh' = Touched({a.code}, fresh)
    /\ UNCHANGED <<nextId, now, redisUp, linkCache, statsCache, wakeAt, served, sweeper, raced>>

\* faults of the invalidation: one of the two keys forgotten
InvalidateStatsOnly(c) ==
    /\ linkCache' = linkCache
    /\ statsCache' = CacheDelete(statsCache, c, NoStats)
InvalidateLinkOnly(c) ==
    /\ linkCache' = CacheDelete(linkCache, c, NoUrl)
    /\ statsCache' = statsCache

\* the keys a write handler deletes from Redis, lines 186-187 and 226-227
Invalidate(c) ==
    /\ linkCache' = CacheDelete(linkCache, c, NoUrl)
    /\ statsCache' = CacheDelete(statsCache, c, NoStats)

\* lines 225-235: the invalidation, then the response built from
\* updated_link, which is None when crud.update_link found no row
UpdateFinish(p) ==
    /\ procs[p].pc = "u_inv"
    /\ LET a == procs[p] IN
       IF ~redisUp
       THEN /\ procs' = [procs EXCEPT ![p] = Respond(p, "Error", "ConnectionError", NoUrl)]
            /\ UNCHANGED <<linkCache, statsCache, fresh>>
       ELSE /\ Invalidate(a.code)
            /\ IF a.dbl = NoRow
               THEN /\ procs' = [procs EXCEPT ![p] = Respond(p, "Error", "AttributeError", NoUrl)]
                    /\ fresh' = fresh
               ELSE /\ procs' = [procs EXCEPT ![p] =
                           [Respond(p, "OK", "none", a.dbl.original_url)
                               EXCEPT !.url = a.url]]
                    /\ fresh' = [fresh EXCEPT ![a.code] =
                           [url |-> a.expect.url,
                            alone |-> a.expect.alone /\ \A q \in Procs \ {p} :
                                          Free(q) \/ procs[q].code # a.code]]
    /\ UNCHANGED <<links, nextId, now, redisUp, wakeAt, served, sweeper, raced>>

Update(p) ==
    \/ UpdateLoad(p)
    \/ UpdateWrite(p)
    \/ UpdateFinish(p)

(***************************************************************************)
(* DELETE /links/{short_code}: main.delete_link over crud.delete_link      *)
(***************************************************************************)
StartDelete(p, c, user) ==
    /\ Free(p)
    /\ procs' = [Joined(c, procs) EXCEPT ![p] =
                    [Idle EXCEPT !.pc = "d_load", !.op = "delete", !.code = c,
                                 !.user = user]]
    /\ UNCHANGED <<links, nextId, now, redisUp, linkCache, statsCache, wakeAt, served, fresh, sweeper>>
    /\ raced' = Overlaps("delete", c)

\* lines 169-181
DeleteLoad(p) ==
    /\ procs[p].pc = "d_load"
    /\ LET a == procs[p] IN
       \E r \in get_link_by_short_code(a.code) :
         procs' = [procs EXCEPT ![p] =
              IF r = NoRow THEN Respond(p, "NotFound", "none", NoUrl)
              ELSE IF r.user_id # None /\ r.user_id # a.user
              THEN Respond(p, "Forbidden", "none", NoUrl)
              ELSE [a EXCEPT !.pc = "d_delete"]]
    /\ UNCHANGED <<links, nextId, now, redisUp, linkCache, statsCache, wakeAt, served, fresh, sweeper, raced>>

\* line 183, crud.delete_link: the query, the DELETE and its commit
DeleteRow(p) ==
    /\ procs[p].pc = "d_delete"
    /\ LET a == procs[p] IN
       /\ links' = {r \in links : r.short_code # a.code}
       /\ procs' = [Forget({a.code}, procs) EXCEPT ![p] = [a EXCEPT !.pc = "d_inv"]]
       /\ fresh' = Touched({a.code}, fresh)
    /\ UNCHANGED <<nextId, now, redisUp, linkCache, statsCache, wakeAt, served, sweeper, raced>>

\* lines 185-189
DeleteFinish(p) ==
    /\ procs[p].pc = "d_inv"
    /\ IF ~redisUp
       THEN /\ procs' = [procs EXCEPT ![p] = Respond(p, "Error", "ConnectionError", NoUrl)]
            /\ UNCHANGED <<linkCache, statsCache>>
       ELSE /\ Invalidate(procs[p].code)
            /\ procs' = [procs EXCEPT ![p] = Respond(p, "OK", "none", NoUrl)]
    /\ UNCHANGED <<links, nextId, now, redisUp, wakeAt, served, fresh, sweeper, raced>>

Delete(p) ==
    \/ DeleteLoad(p)
    \/ DeleteRow(p)
    \/ DeleteFinish(p)

(***************************************************************************)
(* GET /links/{short_code}/stats: main.get_link_stats                      *)
(***************************************************************************)
StartStats(p, c) ==
    /\ Free(p)
    /\ procs' = [Joined(c, procs) EXCEPT ![p] =
                    [Idle EXCEPT !.pc = "s_get", !.op = "stats", !.code = c]]
    /\ UNCHANGED <<links, nextId, now, redisUp, linkCache, statsCache, wakeAt, served, fresh, sweeper>>
    /\ raced' = Overlaps("stats", c)

\* fault: a snapshot that leaves the counter out
LinkStatsNoClicks(link) ==
    [original_url |-> link.original_url, created_at |-> link.created_at,
     clicks |-> 0, last_used_at |-> link.last_used_at,
     project_id |-> link.project_id]

\* schemas.LinkStats of a row, lines 255-261
LinkStats(link) ==
    [original_url |-> link.original_url, created_at |-> link.created_at,
     clicks |-> link.clicks, last_used_at |-> link.last_used_at,
     project_id |-> link.project_id]

\* lines 242-246
StatsGet(p) ==
    /\ procs[p].pc = "s_get"
    /\ LET cs == CacheGet(statsCache, procs[p].code, NoStats) IN
       procs' = [procs EXCEPT ![p] =
            IF ~redisUp THEN Respond(p, "Error", "ConnectionError", NoUrl)
            ELSE IF cs # NoStats
                 THEN [Respond(p, "OK", "none", cs.original_url) EXCEPT !.hit = TRUE]
                 ELSE [procs[p] EXCEPT !.pc = "s_load"]]
    /\ UNCHANGED <<links, nextId, now, redisUp, linkCache, statsCache, wakeAt, served, fresh, sweeper, raced>>

\* lines 248-261
StatsLoad(p) ==
    /\ procs[p].pc = "s_load"
    /\ \E r \in get_link_by_short_code(procs[p].code) :
         procs' = [procs EXCEPT ![p] =
              IF r = NoRow THEN Respond(p, "NotFound", "none", NoUrl)
              ELSE [procs[p] EXCEPT !.pc = "s_set", !.link = r]]
    /\ UNCHANGED <<links, nextId, now, redisUp, linkCache, statsCache, wakeAt, served, fresh, sweeper, raced>>

\* lines 263-270
StatsSet(p) ==
    /\ procs[p].pc = "s_set"
    /\ LET a == procs[p] IN
       IF ~redisUp
       THEN /\ procs' = [procs EXCEPT ![p] = Respond(p, "Error", "ConnectionError", NoUrl)]
            /\ statsCache' = statsCache
       ELSE /\ statsCache' = CacheSet(statsCache, a.code, LinkStats(a.link), STATS_TTL)
            /\ procs' = [procs EXCEPT ![p] =
                   [Respond(p, "OK", "none", a.link.original_url) EXCEPT !.link = a.link]]
    /\ UNCHANGED <<links, nextId, now, redisUp, linkCache, wakeAt, served, fresh, sweeper, raced>>

Stats(p) ==
    \/ StatsGet(p)
    \/ StatsLoad(p)
    \/ StatsSet(p)

(***************************************************************************)
(* The sweeper thread, the stale cleanup, the clock and the Redis backend. *)
(***************************************************************************)
\* fault of the query: expires_at <= now
ExpiredLinksUpToNow(t) == {r \in links : r.expires_at # None /\ r.expires_at <= t}

\* crud.delete_expired_links: the rows the query selects; the comparison of
\* a NULL expires_at is not true in SQL
ExpiredLinks(t) == {r \in links : r.expires_at # None /\ r.expires_at < t}

\* the sweeper thread before its first iteration has ended.  History:
\* failures, the number of its iterations that raised; removed, per code, when
\* an iteration removed its link and whether no request for it was in flight;
\* stop, whether the process has been told to shut down
NoSweep == [outcome |-> "none", count |-> 0, alive |-> TRUE, failures |-> 0,
            removed |-> [c \in Codes |-> [at |-> None, quiet |-> FALSE]],
            stop |-> FALSE]

Removed(t) ==
    [c \in Codes |->
        IF \E r \in ExpiredLinks(t) : r.short_code = c
        THEN [at |-> t, quiet |-> \A q \in Procs : Free(q) \/ procs[q].code # c]
        ELSE sweeper.removed[c]]

\* fault: a loop without its except clause, which an exception leaves
ExceptionEscapes == FALSE

\* lines 41-42: except Exception catches what an iteration raises, and the
\* loop goes on
ExceptionCaught == TRUE

\* main.delete_expired_links_task: one turn of the loop in which
\* crud.delete_expired_links selects, deletes, commits and returns its count
\* in one transaction; then sleep(600)
Sweep ==
    /\ sweeper.alive
    /\ now >= wakeAt
    /\ links' = links \ ExpiredLinks(now)
    /\ sweeper' = [outcome |-> "deleted", count |-> Cardinality(ExpiredLinks(now)),
                   alive |-> TRUE, failures |-> sweeper.failures,
                   removed |-> Removed(now), stop |-> sweeper.stop]
    /\ wakeAt' = now + SWEEP_INTERVAL
    /\ procs' = Forget({r.short_code : r \in ExpiredLinks(now)}, procs)
    /\ fresh' = Touched({r.short_code : r \in ExpiredLinks(now)}, fresh)
    /\ UNCHANGED <<nextId, now, redisUp, linkCache, statsCache, served, raced>>

\* main.delete_expired_links_task, lines 41-45: one turn of the loop in which
\* get_db or crud.delete_expired_links raises (the store does not answer);
\* the exception is printed, nothing is committed; then sleep(600)
SweepFail ==
    /\ sweeper.alive
    /\ now >= wakeAt
    /\ sweeper' = [outcome |-> "failed", count |-> 0, alive |-> ExceptionCaught,
                   failures |-> sweeper.failures + 1, removed |-> sweeper.removed,
                   stop |-> sweeper.stop]
    /\ wakeAt' = now + SWEEP_INTERVAL
    /\ UNCHANGED <<links, nextId, now, redisUp, linkCache, statsCache, procs, served, fresh, raced>>

\* the process is told to shut down.  The thread of lines 49-50 is a daemon
\* whose loop (while True, line 36) reads no flag or event: nothing of the
\* request reaches it, and it runs until the interpreter exits
Shutdown ==
    /\ ~sweeper.stop
    /\ sweeper' = [sweeper EXCEPT !.stop = TRUE]
    /\ UNCHANGED <<links, nextId, now, redisUp, linkCache, statsCache, wakeAt, procs,
                   served, fresh, raced>>

\* crud.delete_unused_links: the rows the query selects, cutoff = now - days
UnusedLinks(cutoff) ==
    {r \in links : \/ r.last_used_at # None /\ r.last_used_at < cutoff
                   \/ r.last_used_at = None /\ r.created_at < cutoff}

\* DELETE /links/cleanup with days = 0, by an administrator
Cleanup ==
    /\ UnusedLinks(now) # {}
    /\ links' = links \ UnusedLinks(now)
    /\ procs' = Forget({r.short_code : r \in UnusedLinks(now)}, procs)
    /\ fresh' = Touched({r.short_code : r \in UnusedLinks(now)}, fresh)
    /\ UNCHANGED <<nextId, now, redisUp, linkCache, statsCache, wakeAt, served, sweeper, raced>>

\* time passes; Redis drops the entries whose time-to-live has run out
Tick ==
    /\ \E t \in Times :
         /\ t > now
         /\ now' = t
         /\ linkCache' = Unexpired(linkCache, t, NoUrl)
         /\ statsCache' = Unexpired(statsCache, t, NoStats)
    /\ UNCHANGED <<links, nextId, redisUp, wakeAt, procs, served, fresh, sweeper, raced>>

\* the Redis backend becomes unreachable, and reachable again
RedisFail ==
    /\ redisUp
    /\ redisUp' = FALSE
    /\ UNCHANGED <<links, nextId, now, linkCache, statsCache, wakeAt, procs, served, fresh, sweeper, raced>>

RedisRecover ==
    /\ ~redisUp
    /\ redisUp' = TRUE
    /\ UNCHANGED <<links, nextId, now, linkCache, statsCache, wakeAt, procs, served, fresh, sweeper, raced>>

(***************************************************************************)
(* The specifications.  Each runs the handlers named in its next-state     *)
(* relation, concurrently on every handler of Procs, from a store the      *)
(* service can hold.                                                       *)
(***************************************************************************)
InitWith(rows) ==
    /\ links = rows
    /\ nextId = Cardinality(rows) + 1
    /\ now = 0
    /\ redisUp = TRUE
    /\ linkCache = [c \in Codes |-> NoEntry]
    /\ statsCache = [c \in Codes |-> NoStatsEntry]
    /\ wakeAt = 0
    /\ sweeper = NoSweep
    /\ procs = [p \in Procs |-> Idle]
    /\ served = [c \in Codes |-> 0]
    /\ fresh = [c \in Codes |-> NoFresh]
    /\ raced = [c \in Codes |-> [link |-> FALSE, stats |-> FALSE]]

Init == InitWith({})

\* Creation and deletion from the empty store.
Next ==
    \E p \in Procs :
       \/ \E url \in Urls, alias \in Codes \cup {NoCode}, user \in {None, 1} :
            StartCreate(p, url, alias, None, None, user)
       \/ Create(p)
       \/ \E c \in Codes : StartDelete(p, c, 1)
       \/ Delete(p)

Spec == Init /\ [][Next]_vars

\* Concurrent resolutions over a store that holds one live link.
InitResolve == InitWith({Link(1, "http://x", "abc", 0, None, None, None)})

NextResolve == \E p \in Procs : (\E c \in Codes : StartResolve(p, c)) \/ Resolve(p)

SpecResolve == InitResolve /\ [][NextResolve]_vars

\* Resolutions of a link that expires, with the sweeper, the stale cleanup
\* and the clock.
InitExpiry == InitWith({Link(1, "http://x", "abc", 0, 600, None, None)})

NextExpiry ==
    \/ \E p \in Procs : StartResolve(p, "abc") \/ Resolve(p)
    \/ Sweep
    \/ Cleanup
    \/ Tick

SpecExpiry == InitExpiry /\ [][NextExpiry]_vars

\* Concurrent resolutions, updates and deletions of one link.
NextUpdate ==
    \E p \in Procs :
       \/ StartResolve(p, "abc")
       \/ Resolve(p)
       \/ StartUpdate(p, "abc", "http://y", None, None, 1)
       \/ Update(p)
       \/ StartDelete(p, "abc", 1)
       \/ Delete(p)
       \/ StartStats(p, "abc")
       \/ Stats(p)

SpecUpdate == InitResolve /\ [][NextUpdate]_vars

\* One handler at a time resolving, reading the statistics of, updating and
\* deleting one link over a Redis backend that may fail.
NextCache ==
    \/ StartResolve("p1", "abc")
    \/ Resolve("p1")
    \/ \E url \in Urls : StartUpdate("p1", "abc", url, None, None, 1)
    \/ Update("p1")
    \/ StartDelete("p1", "abc", 1)
    \/ Delete("p1")
    \/ StartStats("p1", "abc")
    \/ Stats("p1")
    \/ RedisFail
    \/ RedisRecover

SpecCache == InitResolve /\ [][NextCache]_vars

\* The sweeper thread over a store that links with and without an expiry are
\* added to, with iterations that fail.
Expiries == {None, 600, 3600}

NextSweep ==
    \/ \E url \in Urls, alias \in Codes \cup {NoCode}, exp \in Expiries :
         StartCreate("p1", url, alias, exp, None, None)
    \/ Create("p1")
    \/ Sweep
    \/ SweepFail
    \/ Tick

SpecSweep == Init /\ [][NextSweep]_vars

\* The sweeper thread, with iterations that fail, next to one handler that
\* resolves a link that expires five minutes after its creation.  The clock
\* advances, and the thread runs its next iteration when its sleep has ended.
InitSweeper == InitWith({Link(1, "http://x", "abc", 0, 300, None, None)})

NextSweeper ==
    \/ StartResolve("p1", "abc")
    \/ Resolve("p1")
    \/ Sweep
    \/ SweepFail
    \/ Tick

SpecSweeper ==
    /\ InitSweeper
    /\ [][NextSweeper]_vars
    /\ WF_vars(Tick)
    /\ WF_vars(Sweep \/ SweepFail)

\* Concurrent resolutions of a link that expires five minutes after its
\* creation, with the sweeper and the clock.
NextStale ==
    \/ \E p \in Procs : StartResolve(p, "abc") \/ Resolve(p)
    \/ Sweep
    \/ Tick

SpecStale == InitSweeper /\ [][NextStale]_vars

\* An owner who edits a link, with any URL, with and without an expiry and a
\* project, while another handler resolves and deletes it.
NextEdit ==
    \/ \E c \in Codes, url \in Urls, exp \in {None, 3600}, proj \in {None, 1} :
         StartUpdate("p1", c, url, exp, proj, 1)
    \/ Update("p1")
    \/ StartResolve("p2", "abc")
    \/ Resolve("p2")
    \/ StartDelete("p2", "abc", 1)
    \/ Delete("p2")

SpecEdit == InitResolve /\ [][NextEdit]_vars

\* Concurrent anonymous creations without an alias, from the empty store.
NextDedupe ==
    \E p \in Procs :
       \/ \E url \in Urls : StartCreate(p, url, NoCode, None, None, None)
       \/ Create(p)

SpecDedupe == Init /\ [][NextDedupe]_vars

\* Creations under custom aliases of every kind, and without one, from the
\* empty store.
NextAlias ==
    \E p \in Procs :
       \/ \E alias \in Aliases \cup {NoCode} : SubmitCreate(p, "http://x", alias)
       \/ Create(p)

SpecAlias == Init /\ [][NextAlias]_vars

\* The sweeper thread and one resolving handler in a process that is told to
\* shut down.
NextShutdown ==
    \/ StartResolve("p1", "abc")
    \/ Resolve("p1")
    \/ Sweep
    \/ SweepFail
    \/ Tick
    \/ Shutdown

SpecShutdown == InitSweeper /\ [][NextShutdown]_vars

(***************************************************************************)
(* The properties.                                                         *)
(***************************************************************************)
\* handler p takes a step, and the step ends its request
Steps(p) == procs'[p].pc # procs[p].pc
Ends(p) == procs[p].pc # "done" /\ procs'[p].pc = "done"
\* the row of a code, NoRow if there is none
RowOf(c) == IF \E r \in links : r.short_code = c
            THEN CHOOSE r \in links : r.short_code = c ELSE NoRow

\* C1: in every reachable state of the store no two links have the same
\* short_code (nor the same id), whatever the interleaving of the creations
\* and whether the code was generated or supplied as an alias.
C1_ShortCodeUnique ==
    \A r1 \in links, r2 \in links :
        (r1.short_code = r2.short_code \/ r1.id = r2.id) => r1 = r2

\* C1, its case: a creation lost the race for a short code to another one,
\* whose link the store holds.
C1_Witness ==
    \E p \in Procs :
        /\ procs[p].pc = "done" /\ procs[p].why = "IntegrityError"
        /\ \E r \in links : r.short_code = procs[p].code

\* C2: once every resolution has completed, the clicks of a live link equal
\* the number of resolutions answered with a redirect: no increment is lost.
C2_NoLostIncrement ==
    (\A p \in Procs : Free(p)) =>
        \A r \in links : r.clicks = served[r.short_code]

\* C3: the clicks of a link never decrease from one state of the store to
\* the next while the link exists.
C3_ClicksNeverDecrease ==
    [][\A r \in links : \A r2 \in links' : r2.id = r.id => r2.clicks >= r.clicks]_vars

\* C4 as stated: no resolution answers with a redirect for a link whose
\* expires_at was in the past when the call arrived, cached or not.
C4_NoRedirectOfExpired ==
    \A p \in Procs :
        procs[p].pc = "done" /\ procs[p].op = "resolve" /\ procs[p].out = "Redirect"
            => procs[p].at0 # "expired"

\* C4 as amended: a resolution that misses the link cache and reads from the
\* store a record whose expires_at is before the time of its expiry check
\* ends there, and not with a redirect.
C4_MissPathChecksExpiry ==
    [][\A p \in Procs :
          ( /\ procs[p].pc = "r_load" /\ Steps(p)
            /\ RowOf(procs[p].code) # NoRow
            /\ RowOf(procs[p].code).expires_at # None
            /\ RowOf(procs[p].code).expires_at < now )
          => procs'[p].pc = "done" /\ procs'[p].out # "Redirect"]_vars

\* C4, its case: a resolution of a link expired when the call arrived has
\* missed the cache and ended without a redirect.
C4_Witness ==
    \E p \in Procs :
        /\ procs[p].pc = "done" /\ procs[p].op = "resolve" /\ ~procs[p].hit
        /\ procs[p].at0 = "expired" /\ procs[p].out = "Gone"

\* C5 as stated: the first resolution to start after an update of its code
\* has completed redirects to the URL of that update.
C5_ResolveAfterUpdate ==
    \A p \in Procs :
        ( /\ procs[p].pc = "done" /\ procs[p].op = "resolve"
          /\ procs[p].out = "Redirect" /\ procs[p].expect.url # NoUrl )
        => procs[p].res = procs[p].expect.url

\* C5 as amended: when no other request for the code was in flight while the
\* update ran, the first resolution to start after the update has completed,
\* if it redirects and no later write to the record intervenes, redirects to
\* the URL of that update.
C5_ResolveAfterQuietUpdate ==
    \A p \in Procs :
        ( /\ procs[p].pc = "done" /\ procs[p].op = "resolve"
          /\ procs[p].out = "Redirect" /\ procs[p].expect.alone )
        => procs[p].res = procs[p].expect.url

\* C5, its case: an earlier resolution had been answered (and had cached the
\* first URL), an update to another URL completed, and the next resolution
\* redirected to the URL of the update.
C5_Witness ==
    \E p \in Procs :
        /\ procs[p].pc = "done" /\ procs[p].op = "resolve" /\ procs[p].out = "Redirect"
        /\ procs[p].expect.alone /\ procs[p].expect.url = "http://y"
        /\ procs[p].res = "http://y"
        /\ served[procs[p].code] >= 2

\* C6: a resolution that misses the link cache and finds a record whose
\* expires_at is in the past signals Gone in that step, writes neither the
\* link cache nor the record, and has recorded no use.
C6_ExpiredIsGone ==
    /\ [][\A p \in Procs :
            ( /\ procs[p].pc = "r_load" /\ Steps(p)
              /\ RowOf(procs[p].code) # NoRow
              /\ RowOf(procs[p].code).expires_at # None
              /\ RowOf(procs[p].code).expires_at < now )
            => /\ procs'[p].pc = "done" /\ procs'[p].out = "Gone"
               /\ linkCache' = linkCache
               /\ links' = links]_vars
    /\ [](\A p \in Procs :
            procs[p].pc = "done" /\ procs[p].out = "Gone" => procs[p].inc = 0)

\* C6, its case: a resolution ended with Gone while the expired record is
\* still in the store and its code is not in the link cache.
C6_Witness ==
    \E p \in Procs :
        /\ procs[p].pc = "done" /\ procs[p].op = "resolve" /\ procs[p].out = "Gone"
        /\ RowOf(procs[p].code) # NoRow
        /\ RowOf(procs[p].code).clicks = 0
        /\ RowOf(procs[p].code).expires_at < now
        /\ CacheGet(linkCache, procs[p].code, NoUrl) = NoUrl

\* C7 as stated: a resolution of a code for which the store held no record
\* when the call arrived ends with NotFound.
C7_AbsentIsNotFound ==
    \A p \in Procs :
        procs[p].pc = "done" /\ procs[p].op = "resolve" /\ procs[p].at0 = "absent"
            => procs[p].out = "NotFound"

\* C7 as amended: a resolution that misses the link cache and finds no
\* record at its store lookup ends with NotFound in that step, and has
\* written neither the store nor the link cache.
C7_MissAndAbsentIsNotFound ==
    /\ [][\A p \in Procs :
            (procs[p].pc = "r_load" /\ Steps(p) /\ RowOf(procs[p].code) = NoRow)
            => /\ procs'[p].pc = "done" /\ procs'[p].out = "NotFound"
               /\ linkCache' = linkCache
               /\ links' = links]_vars
    /\ [](\A p \in Procs :
            procs[p].pc = "done" /\ procs[p].out = "NotFound" => procs[p].inc = 0)

\* C7, its case: the record was removed from the store and a resolution of
\* its code ended with NotFound.
C7_Witness ==
    \E p \in Procs :
        /\ procs[p].pc = "done" /\ procs[p].op = "resolve" /\ procs[p].out = "NotFound"
        /\ procs[p].at0 = "absent" /\ procs[p].code = "abc"
        /\ links = {}

\* C8: every resolution answered with a redirect has committed one increment,
\* the commit of an increment raises the stored clicks by exactly 1, and no
\* other step changes the clicks of a link.
C8_OneIncrementPerRedirect ==
    /\ [](\A p \in Procs :
            procs[p].pc = "done" /\ procs[p].op = "resolve"
                => (procs[p].inc = 1 <=> procs[p].out = "Redirect"))
    /\ [][\A r \in links : \A r2 \in links' :
            (r2.id = r.id /\ r2.clicks # r.clicks) =>
                /\ r2.clicks = r.clicks + 1
                /\ r2.last_used_at # None
                /\ \E p \in Procs : procs[p].pc = "r_inc_commit" /\ Steps(p)]_vars
    /\ [][\A p \in Procs :
            (procs[p].pc = "r_inc_commit" /\ procs'[p].pc = "r_fin")
                => RowOf(procs[p].code)' .clicks = RowOf(procs[p].code).clicks + 1]_vars

\* C9: no request fails because the Redis backend is unreachable.
C9_CacheFailOpen ==
    \A p \in Procs : procs[p].why # "ConnectionError"

\* C10: the step that completes an update or a delete leaves neither
\* link:{code} nor stats:{code} in the cache; the step that completes a
\* resolution with a redirect leaves no stats:{code}; no step of a resolution
\* served from the cache changes link:{code}.
C10_MutationsInvalidate ==
    [][\A p \in Procs :
          /\ (Ends(p) /\ procs'[p].out = "OK" /\ procs[p].op \in {"update", "delete"})
                => /\ linkCache'[procs[p].code] = NoEntry
                   /\ statsCache'[procs[p].code] = NoStatsEntry
          /\ (Ends(p) /\ procs'[p].out = "Redirect")
                => statsCache'[procs[p].code] = NoStatsEntry
          /\ (Steps(p) /\ procs[p].op = "resolve" /\ procs[p].hit)
                => linkCache'[procs[p].code] = linkCache[procs[p].code]]_vars

\* C10, its case: a resolution was served from the cache and its completion
\* left the link entry and no stats entry.
C10_Witness ==
    \E p \in Procs :
        /\ procs[p].pc = "done" /\ procs[p].op = "resolve" /\ procs[p].hit
        /\ procs[p].out = "Redirect"
        /\ linkCache[procs[p].code] # NoEntry
        /\ statsCache[procs[p].code] = NoStatsEntry
        /\ served[procs[p].code] >= 2

\* C11: a resolution that finds, within its time-to-live, the link cache entry
\* an earlier resolution placed after a store hit is served from the cache: it
\* goes on to record the use without loading the record for its URL, redirects
\* to the cached URL, which is the URL the earlier resolution returned, leaves
\* the entry in place, and commits one use (the counter it loaded plus one,
\* the time it read) to the record when the store still holds it.
C11_ServedFromCache ==
    /\ [][\A p \in Procs :
            LET c == procs[p].code IN
            /\ ( /\ procs[p].pc = "r_get" /\ Steps(p) /\ redisUp
                 /\ linkCache[c].val # NoUrl /\ linkCache[c].exp > now )
               => /\ procs'[p].pc = "r_inc_read" /\ procs'[p].hit
                  /\ procs'[p].cached = linkCache[c].val
            /\ (procs[p].op = "resolve" /\ procs[p].hit /\ Steps(p))
               => /\ procs'[p].pc # "r_load"
                  /\ linkCache' = linkCache
            /\ (procs[p].pc = "r_fin" /\ procs[p].hit /\ Steps(p) /\ redisUp)
               => procs'[p].out = "Redirect" /\ procs'[p].res = procs[p].cached
            /\ (procs[p].pc = "r_fin" /\ ~procs[p].hit /\ Steps(p)
                    /\ procs'[p].out = "Redirect")
               => linkCache'[c] = [val |-> procs'[p].res, exp |-> now + LINK_TTL]
            /\ (procs[p].pc = "r_inc_commit" /\ procs[p].hit /\ procs'[p].pc = "r_fin")
               => /\ procs'[p].inc = 1
                  /\ RowOf(c)'.last_used_at = procs[p].ts
                  /\ procs[p].ts \in Times /\ procs[p].ts <= now
                  /\ RowOf(c)'.clicks = procs[p].dbl.clicks + 1]_vars
    /\ [](\A p \in Procs :
            ( /\ procs[p].pc = "done" /\ procs[p].op = "resolve" /\ procs[p].hit
              /\ procs[p].out = "Redirect" /\ RowOf(procs[p].code) # NoRow )
            => procs[p].inc = 1)

\* C11, its case: ten minutes after a resolution from the store, a second
\* resolution was served from the cache and its use is in the record.
C11_Witness ==
    \E p \in Procs :
        /\ procs[p].pc = "done" /\ procs[p].op = "resolve" /\ procs[p].hit
        /\ procs[p].out = "Redirect" /\ procs[p].res = "http://x" /\ procs[p].inc = 1
        /\ now = 600 /\ linkCache[procs[p].code].exp = LINK_TTL
        /\ RowOf(procs[p].code).clicks = 2
        /\ RowOf(procs[p].code).last_used_at = 600

\* C12: an iteration of the sweeper that returns removes from the store
\* exactly the links whose expires_at is strictly before the time it observes,
\* returns their number, and leaves every other link as it was; a link with
\* no expires_at is never among the removed.
C12_DeletesExactlyExpired ==
    [][(wakeAt' # wakeAt /\ sweeper'.outcome = "deleted") =>
          /\ \A r \in links :
                r \in links' <=> ~(r.expires_at # None /\ r.expires_at < now)
          /\ links' \subseteq links
          /\ sweeper'.count = Cardinality(links) - Cardinality(links')
          /\ \A r \in links : r.expires_at = None => r \in links'
      ]_vars

\* C12, its case: of two links in the store the sweeper removed the one that
\* had expired and kept the one whose expires_at is the current time.
C12_Witness ==
    /\ sweeper.outcome = "deleted" /\ sweeper.count = 1
    /\ now = 3600
    /\ \E r \in links : r.expires_at = 3600
    /\ ~ \E r \in links : r.expires_at = 600
    /\ nextId = 3

\* C13: the lookup of an anonymous creation without an alias, for a URL that
\* a link of the store has, ends the request with the short code of such a
\* link and adds no record; the insert of a creation under an unused alias
\* adds one record with a new id, that alias and the URL, whether or not
\* other links have the URL, and the lookup of an aliased creation does not
\* stop at a link with the same URL.
C13_DedupeByUrl ==
    [][\A p \in Procs :
          LET a == procs[p] IN
          /\ ( /\ a.pc = "c_check" /\ Steps(p) /\ a.user = None /\ a.code = NoCode
               /\ \E r \in links : r.original_url = a.url )
             => /\ procs'[p].pc = "done" /\ procs'[p].out = "OK"
                /\ \E r \in links : /\ r.original_url = a.url
                                    /\ procs'[p].code = r.short_code
                /\ links' = links
          /\ ( /\ a.pc = "c_check" /\ Steps(p) /\ a.code # NoCode /\ a.proj = None
               /\ \A r \in links : r.short_code # a.code )
             => procs'[p].pc = "c_insert"
          /\ ( /\ a.pc = "c_insert" /\ Steps(p)
               /\ \A r \in links : r.short_code # a.code )
             => /\ procs'[p].out = "OK" /\ procs'[p].code = a.code
                /\ \E r \in links' \ links :
                      /\ links' = links \cup {r}
                      /\ r.short_code = a.code /\ r.original_url = a.url
                      /\ r.user_id = a.user
                      /\ \A r2 \in links : r2.id # r.id]_vars

\* C13, its case: a creation without an alias was answered with the code of
\* the link that had its URL, and a creation under an alias has added a second
\* link with that URL.
C13_Witness ==
    \E p \in Procs, q \in Procs :
        /\ p # q
        /\ procs[p].pc = "done" /\ procs[p].op = "create" /\ procs[p].hit
        /\ procs[p].out = "OK" /\ procs[p].code = "abc"
        /\ procs[q].pc = "done" /\ procs[q].op = "create" /\ ~procs[q].hit
        /\ procs[q].out = "OK" /\ procs[q].code = "xyz"
        /\ \E r1 \in links, r2 \in links :
              /\ r1.short_code = "abc" /\ r2.short_code = "xyz"
              /\ r1.original_url = r2.original_url
              /\ r1.user_id = None /\ r1.id < r2.id

\* C14: the lookup of a creation issued by an authenticated owner, with an
\* unused alias or with none, never ends the request at a link that has the
\* same URL: the creation goes on to add a record of its own.
C14_OwnedCreateAddsRecord ==
    [][\A p \in Procs :
          LET a == procs[p] IN
          ( /\ a.pc = "c_check" /\ Steps(p) /\ a.user # None /\ a.proj = None
            /\ \A r \in links : r.short_code # a.code )
          => procs'[p].pc \in {"c_gen", "c_insert"}]_vars

\* C15: the lookup of a creation whose alias is the short code of a link ends
\* the request with the Conflict outcome and leaves the store as it was; an
\* insert under a code that another creation has taken in the meantime fails
\* and adds no record.
C15_AliasConflict ==
    [][\A p \in Procs :
          LET a == procs[p] IN
          /\ ( /\ a.pc = "c_check" /\ Steps(p) /\ a.code # NoCode
               /\ \E r \in links : r.short_code = a.code )
             => /\ procs'[p].pc = "done" /\ procs'[p].out = "Conflict"
                /\ links' = links
          /\ ( /\ a.pc = "c_insert" /\ Steps(p)
               /\ \E r \in links : r.short_code = a.code )
             => /\ procs'[p].pc = "done" /\ procs'[p].out # "OK"
                /\ links' = links]_vars

\* C16: every iteration of the sweeper, failed or not, leaves the thread
\* running and asleep for one interval; when the sleep has ended within the
\* time of the model another iteration runs; and an iteration that succeeds
\* leaves no link in the store whose expires_at has passed.
C16_SweeperSurvivesFailure ==
    /\ [][wakeAt' # wakeAt =>
            /\ sweeper'.alive
            /\ wakeAt' = now + SWEEP_INTERVAL
            /\ sweeper'.outcome \in {"deleted", "failed"}
            /\ sweeper'.outcome = "failed" => links' = links
            /\ sweeper'.outcome = "deleted" =>
                  \A r \in links' : ~(r.expires_at # None /\ r.expires_at < now)]_vars
    /\ [](sweeper.alive)
    /\ \A w \in {0} \cup {t + SWEEP_INTERVAL : t \in Times} :
          (wakeAt = w /\ \E t \in Times : t >= w) ~> (wakeAt > w)

\* C16, its case: the iterations at the start and after ten minutes failed,
\* the second one with the expired link in the store, and the next iteration
\* has removed the link.
C16_Witness ==
    /\ sweeper.outcome = "deleted" /\ sweeper.count = 1 /\ sweeper.alive
    /\ sweeper.failures = 2
    /\ links = {}
    /\ now = 3600 /\ wakeAt = now + SWEEP_INTERVAL

\* C17 as stated: an iteration of the sweeper leaves the cache as it is, and
\* every resolution that starts more than one time-to-live of the link cache
\* after the sweeper removed the link of its code ends with NotFound.
C17_StaleForOneTtl ==
    /\ [][wakeAt' # wakeAt => linkCache' = linkCache /\ statsCache' = statsCache]_vars
    /\ [](\A p \in Procs :
            (procs[p].pc = "done" /\ procs[p].op = "resolve" /\ procs[p].late)
            => procs[p].out = "NotFound")

\* C17 as amended: an iteration of the sweeper leaves the cache as it is, and
\* when no request for the code was in flight as the sweeper removed its
\* link, every resolution that starts more than one time-to-live of the link
\* cache after the removal ends with NotFound.
C17_StaleForOneTtlAfterQuietSweep ==
    /\ [][wakeAt' # wakeAt => linkCache' = linkCache /\ statsCache' = statsCache]_vars
    /\ [](\A p \in Procs :
            ( /\ procs[p].pc = "done" /\ procs[p].op = "resolve" /\ procs[p].late
              /\ sweeper.removed[procs[p].code].quiet )
            => procs[p].out = "NotFound")

\* C17, its case: the sweeper removed the link while its URL was cached, a
\* resolution that started after the removal was served from the cache, and a
\* resolution that started more than an hour after the removal ended with
\* NotFound.
C17_Witness ==
    \E p \in Procs, q \in Procs :
        /\ procs[p].pc = "done" /\ procs[p].op = "resolve" /\ procs[p].late
        /\ procs[p].out = "NotFound"
        /\ sweeper.removed[procs[p].code].quiet
        /\ procs[q].pc = "done" /\ procs[q].op = "resolve" /\ procs[q].hit
        /\ procs[q].at0 = "absent" /\ procs[q].out = "Redirect"

\* C18: the last_used_at of a link never goes back from one state of the
\* store to the next, whatever the interleaving of the timestamp reads and
\* the commits of concurrent resolutions.
C18_LastUsedNeverGoesBack ==
    [][\A r \in links : \A r2 \in links' :
          r2.id = r.id => r2.last_used_at >= r.last_used_at]_vars

\* C19: no step of a statistics request changes a record of the store or the
\* link cache; on a miss of the stats cache the request loads the record of
\* the code as the store holds it, and stores a snapshot of its fields under
\* stats:{code} for 60 seconds, which it returns; for a code without a record
\* it ends with NotFound and leaves the stats cache as it was.
C19_StatsReadsOnly ==
    [][\A p \in Procs :
          LET a == procs[p]
              c == a.code
          IN
          /\ (a.op = "stats" /\ Steps(p))
             => links' = links /\ linkCache' = linkCache
          /\ (a.pc = "s_load" /\ Steps(p) /\ RowOf(c) # NoRow)
             => /\ procs'[p].pc = "s_set" /\ procs'[p].link = RowOf(c)
                /\ statsCache' = statsCache
          /\ (a.pc = "s_load" /\ Steps(p) /\ RowOf(c) = NoRow)
             => /\ procs'[p].pc = "done" /\ procs'[p].out = "NotFound"
                /\ statsCache' = statsCache
          /\ (a.pc = "s_set" /\ Steps(p) /\ redisUp)
             => /\ procs'[p].pc = "done" /\ procs'[p].out = "OK"
                /\ procs'[p].link = a.link
                /\ statsCache'[c].exp = now + 60
                /\ statsCache'[c].val.original_url = a.link.original_url
                /\ statsCache'[c].val.created_at = a.link.created_at
                /\ statsCache'[c].val.clicks = a.link.clicks
                /\ statsCache'[c].val.last_used_at = a.link.last_used_at
                /\ statsCache'[c].val.project_id = a.link.project_id
                /\ \A k \in Codes \ {c} : statsCache'[k] = statsCache[k]]_vars

\* C19, its case: after a resolution and an update, a statistics request
\* missed the stats cache and left the snapshot of the record there, next to
\* the link cache entry of the resolution.
C19_Witness ==
    \E p \in Procs :
        /\ procs[p].pc = "done" /\ procs[p].op = "stats" /\ ~procs[p].hit
        /\ procs[p].out = "OK" /\ procs[p].link = RowOf("abc")
        /\ RowOf("abc").clicks = 1 /\ RowOf("abc").original_url = "http://y"
        /\ statsCache["abc"] = [val |-> LinkStats(RowOf("abc")), exp |-> now + STATS_TTL]
        /\ linkCache["abc"].val = "http://y"

C25_OneRecordPerUrl ==
    /\ \A r1 \in links, r2 \in links :
          r1.original_url = r2.original_url => r1 = r2
    /\ \A p \in Procs, q \in Procs :
          ( /\ procs[p].pc = "done" /\ procs[p].out = "OK"
            /\ procs[q].pc = "done" /\ procs[q].out = "OK"
            /\ procs[p].res = procs[q].res )
          => procs[p].code = procs[q].code

\* C21: a creation under a custom alias is handed to the handler exactly when
\* the alias has between 3 and 20 characters, all of them alphanumeric; any
\* other alias ends the request with a validation error in the step that
\* submits it, with no access to the store; and the record an accepted
\* creation inserts has the alias as its short code.
C21_AliasValidation ==
    /\ [][\A p \in Procs :
            LET v == procs'[p].code
                wellFormed == /\ Len(Chars(v)) >= 3 /\ Len(Chars(v)) <= 20
                              /\ \A i \in 1..Len(Chars(v)) : Chars(v)[i] \in Alphanumeric
            IN
            /\ (Free(p) /\ Steps(p) /\ v \in Aliases)
               => /\ wellFormed => procs'[p].pc = "c_check"
                  /\ ~wellFormed => /\ procs'[p].pc = "done"
                                    /\ procs'[p].out = "ValidationError"
                  /\ links' = links
            /\ ( /\ procs[p].pc = "c_insert" /\ Steps(p) /\ procs[p].code \in Aliases
                 /\ \A r \in links : r.short_code # procs[p].code )
               => /\ procs'[p].out = "OK"
                  /\ \E r \in links' \ links : r.short_code = procs[p].code]_vars
    /\ [](\A r \in links :
            r.short_code \in {"abc", "abc123", "aaaaaaaaaaaaaaaaaaaa"} \cup Codes)

\* C21, its case: an alias with a character that is not alphanumeric was
\* rejected, and the links of the store are those of the six-character alias
\* and of the alias of 20 characters.
C21_Witness ==
    /\ \E p \in Procs :
          /\ procs[p].pc = "done" /\ procs[p].op = "create"
          /\ procs[p].out = "ValidationError" /\ procs[p].code = "abc!23"
    /\ {r.short_code : r \in links} = {"abc123", "aaaaaaaaaaaaaaaaaaaa"}

\* C22: once the process has been told to shut down, the sweeper starts no
\* further iteration.
C22_SweeperStops ==
    [][sweeper.stop => (wakeAt' = wakeAt /\ sweeper'.outcome = sweeper.outcome)]_vars

\* No request is in flight.
Quiet == \A p \in Procs : Free(p)

\* An update or a deletion of code c has completed.
Written(c) ==
    \E q \in Procs : /\ procs[q].pc = "done"
                      /\ procs[q].op \in {"update", "delete"}
                      /\ procs[q].code = c
                      /\ procs[q].out = "OK"

\* The link-cache entry of code c, if any, holds the URL of the store's
\* record; there is no entry when the store has no record.
LinkCoherent(c) ==
    LET e == CacheGet(linkCache, c, NoUrl)
    IN e = NoUrl \/ e = RowOf(c).original_url

\* C23 (as stated): when no request is in flight, the link-cache entry of a
\* code that was updated or deleted agrees with the store (absent if the
\* record was deleted, the record's current URL otherwise), also when a
\* resolution that missed the cache ran alongside the update or deletion.
C23_LinkCacheCoherent ==
    \A c \in Codes : (Quiet /\ Written(c)) => LinkCoherent(c)

\* C23 (amended): when no request is in flight, the link-cache entry of a
\* code agrees with the store provided no resolution of the code has been in
\* flight together with an update or a deletion of it.
C23_LinkCacheCoherentUnlessRaced ==
    \A c \in Codes : (Quiet /\ ~raced[c].link) => LinkCoherent(c)

\* an update has completed with no resolution alongside, and a later
\* resolution has cached the new URL
C23_Witness ==
    /\ Quiet
    /\ ~raced["abc"].link
    /\ Written("abc")
    /\ \E q \in Procs : procs[q].op = "resolve" /\ procs[q].pc = "done" /\ ~procs[q].hit
    /\ CacheGet(linkCache, "abc", NoUrl) = "http://y"
    /\ RowOf("abc").original_url = "http://y"

\* The stats-cache entry of code c, if any, holds the clicks and the URL of
\* the store's record.
StatsCoherent(c) ==
    LET e == CacheGet(statsCache, c, NoStats)
    IN \/ e = NoStats
       \/ /\ RowOf(c) # NoRow
          /\ e.clicks = RowOf(c).clicks
          /\ e.original_url = RowOf(c).original_url

\* C24 (as stated): when no request is in flight, a stats-cache entry holds
\* the clicks and the URL of the store's record, also when a statistics
\* request that missed the cache ran alongside a resolution or an update.
C24_StatsCacheCoherent ==
    \A c \in Codes : Quiet => StatsCoherent(c)

\* C24 (amended): when no request is in flight, a stats-cache entry holds the
\* clicks and the URL of the store's record provided no statistics request
\* for the code has been in flight together with a resolution, an update or
\* a deletion of it.
C24_StatsCacheCoherentUnlessRaced ==
    \A c \in Codes : (Quiet /\ ~raced[c].stats) => StatsCoherent(c)

\* a statistics request that ran after a resolution, with nothing alongside,
\* has cached the counted click
C24_Witness ==
    /\ Quiet
    /\ ~raced["abc"].stats
    /\ \E q \in Procs : procs[q].op = "stats" /\ procs[q].pc = "done" /\ procs[q].out = "OK"
    /\ \E q \in Procs : procs[q].op = "resolve" /\ procs[q].pc = "done"
    /\ CacheGet(statsCache, "abc", NoStats) # NoStats
    /\ CacheGet(statsCache, "abc", NoStats).clicks = 1
    /\ RowOf("abc").clicks = 1

\* C26: an update whose record was removed between its existence check and
\* its store write ends with the NotFound outcome, not with an unhandled
\* failure, and leaves the store as it is (the record is not re-created).
C26_UpdateOfRemovedIsNotFound ==
    [][\A p \in Procs :
          (procs[p].pc = "u_inv" /\ procs[p].dbl = NoRow /\ Ends(p))
             => (procs'[p].out = "NotFound" /\ links' = links)]_vars
====
